---- MODULE Spec2Model ----
(***************************************************************************)
(* Model of the dispatch layer of noto-sans-mono-bitmap (src/src/lib.rs):  *)
(* the cfg-gated enums FontWeight and BitmapHeight, BitmapHeight::val,     *)
(* get_bitmap, get_bitmap_width and the BitmapChar accessors.              *)
(*                                                                         *)
(* The generated modules light / regular / bold (the glyph tables behind   *)
(* get_char and the BITMAP_WIDTH constants) are not part of lib.rs; they   *)
(* are modelled from the specification and marked as such below.           *)
(***************************************************************************)
EXTENDS Integers, Sequences, FiniteSets, TLC

VARIABLES features, ret

vars == <<features, ret>>

(***************************************************************************)
(* Bounds of the model.                                                    *)
(***************************************************************************)
\* Code points 0 .. MaxCodePoint are all tried by the sequential
\* specification (the supported range ends at 0x17F = 383).
MaxCodePoint == 400

\* Number of callers of the interleaved specification.
NumCallers == 2

Callers == 1 .. NumCallers

\* Scalar values far above the table range: U+1F600, U+FFFD, U+10FFFF.
FarCodePoints == {128512, 65533, 1114111}

CodePoints == (0 .. MaxCodePoint) \cup FarCodePoints

\* The code points the interleaved specification draws from:
\* U+0001, 'A', 'i', U+017F, U+1F600.
SampleChars == {1, 65, 105, 383, 128512}

(***************************************************************************)
(* Build configuration: the Cargo features.                                *)
(***************************************************************************)
WeightFeatures == {"light", "regular", "bold"}

SizeFeatures ==
    {"size_14", "size_16", "size_18", "size_20", "size_22", "size_24",
     "size_32", "size_64"}

AllFeatures == WeightFeatures \cup SizeFeatures

\* Feature selections the sequential specification is built with.
Builds ==
    { AllFeatures,
      {"regular", "size_16"},
      {"light", "bold", "size_14", "size_64"},
      {"bold", "size_18", "size_20", "size_22", "size_24", "size_32"} }

\* Feature selections the interleaved specification is built with.
\* Together they hold every one of the 24 combinations.
SmallBuilds ==
    { {w} \cup s : w \in WeightFeatures,
                   s \in { {"size_14", "size_16", "size_18", "size_20"},
                           {"size_22", "size_24", "size_32", "size_64"} } }
    \cup { {"regular", "bold", "size_14", "size_16"} }

(***************************************************************************)
(* Option<T>.                                                              *)
(***************************************************************************)
None == [tag |-> "None"]

Some(x) == [tag |-> "Some", val |-> x]

\* What a call that did not compile leaves: no value at all.
NoValue == [tag |-> "CompileError"]

(***************************************************************************)
(* enum FontWeight, enum BitmapHeight and their cfg attributes.            *)
(***************************************************************************)
FontWeight == {"Light", "Regular", "Bold"}

BitmapHeight ==
    {"Size14", "Size16", "Size18", "Size20", "Size22", "Size24", "Size32",
     "Size64"}

\* #[cfg(feature = "...")] on each FontWeight variant.
FontWeightCfg(style) ==
    CASE style = "Light" -> "light"
      [] style = "Regular" -> "regular"
      [] style = "Bold" -> "bold"

\* #[cfg(feature = "...")] on each BitmapHeight variant.
BitmapHeightCfg(size) ==
    CASE size = "Size14" -> "size_14"
      [] size = "Size16" -> "size_16"
      [] size = "Size18" -> "size_18"
      [] size = "Size20" -> "size_20"
      [] size = "Size22" -> "size_22"
      [] size = "Size24" -> "size_24"
      [] size = "Size32" -> "size_32"
      [] size = "Size64" -> "size_64"

\* Faulty variant: the variants are not gated by their features.
FontWeightVariants_ungated == FontWeight

\* The FontWeight variants that exist in the current build.
FontWeightVariants == {w \in FontWeight : FontWeightCfg(w) \in features}

\* The BitmapHeight variants that exist in the current build.
BitmapHeightVariants == {h \in BitmapHeight : BitmapHeightCfg(h) \in features}

\* Declaration order of the BitmapHeight variants.
BitmapHeightOrder ==
    <<"Size14", "Size16", "Size18", "Size20", "Size22", "Size24", "Size32",
      "Size64">>

\* Faulty variant: the variants carry no explicit discriminant, so `self as _` is
\* the position of the variant among the variants compiled in.
BitmapHeight_val_implicit(self) ==
    Cardinality({i \in 1 .. Len(BitmapHeightOrder) :
                    /\ BitmapHeightOrder[i] \in BitmapHeightVariants
                    /\ \E j \in (i + 1) .. Len(BitmapHeightOrder) :
                          BitmapHeightOrder[j] = self})

\* BitmapHeight::val: `self as _`, the explicit discriminant of the variant.
BitmapHeight_val(self) ==
    CASE self = "Size14" -> 14
      [] self = "Size16" -> 16
      [] self = "Size18" -> 18
      [] self = "Size20" -> 20
      [] self = "Size22" -> 22
      [] self = "Size24" -> 24
      [] self = "Size32" -> 32
      [] self = "Size64" -> 64

(***************************************************************************)
(* The generated modules crate::<weight>::<size> (modelled from the        *)
(* specification).                                                         *)
(***************************************************************************)
\* The path crate::<weight>::<size> of a generated module.
Module(weight, size) == [weight |-> weight, size |-> size]

\* Pixel height of the glyph boxes of a module.
ModuleHeight(m) ==
    CASE m.size = "size_14" -> 14
      [] m.size = "size_16" -> 16
      [] m.size = "size_18" -> 18
      [] m.size = "size_20" -> 20
      [] m.size = "size_22" -> 22
      [] m.size = "size_24" -> 24
      [] m.size = "size_32" -> 32
      [] m.size = "size_64" -> 64

\* <module>::BITMAP_WIDTH: a positive constant per module, smaller than the
\* height.
BITMAP_WIDTH(m) == (3 * ModuleHeight(m) + 4) \div 5

\* Control characters (category Cc): U+0000..U+001F and U+007F..U+009F.
ControlChars == (0 .. 31) \cup (127 .. 159)

\* The code points every table has a glyph for: 0 .. 0x17F without the
\* control characters.
SupportedChars == (0 .. 383) \ ControlChars

\* <module>::get_char: a reference to the static grid of c, or None.
get_char(m, c) ==
    IF c \in SupportedChars
    THEN Some([module |-> m, char |-> c])
    ELSE None

\* The intensity byte of one pixel of a static grid: a u8.
Pixel(seed, row, col) == (seed + 31 * row + 17 * col) % 256

\* The contents of the static grid a reference points to:
\* &'static [&'static [u8]], ModuleHeight rows of BITMAP_WIDTH bytes.
Grid(ref) ==
    LET h == ModuleHeight(ref.module)
        w == BITMAP_WIDTH(ref.module)
        seed == 7 * ref.char + h
    IN  [row \in 1 .. h |-> [col \in 1 .. w |-> Pixel(seed, row, col)]]

(***************************************************************************)
(* struct BitmapChar and its accessors.                                    *)
(***************************************************************************)
BitmapChar(bitmap, height, width) ==
    [bitmap |-> bitmap, height |-> height, width |-> width]

BitmapChar_bitmap(self) == self.bitmap

BitmapChar_height(self) == self.height

BitmapChar_width(self) == self.width

(***************************************************************************)
(* get_bitmap_width.                                                       *)
(***************************************************************************)
\* FontWeight::Light => match size: the module whose BITMAP_WIDTH is returned.
get_bitmap_width_match_light(size) ==
    CASE size = "Size14" -> Module("light", "size_14")
      [] size = "Size16" -> Module("light", "size_16")
      [] size = "Size18" -> Module("light", "size_18")
      [] size = "Size20" -> Module("light", "size_20")
      [] size = "Size22" -> Module("light", "size_22")
      [] size = "Size24" -> Module("light", "size_24")
      [] size = "Size32" -> Module("light", "size_32")
      [] size = "Size64" -> Module("light", "size_64")

\* FontWeight::Regular => match size: the module whose BITMAP_WIDTH is returned.
get_bitmap_width_match_regular(size) ==
    CASE size = "Size14" -> Module("regular", "size_14")
      [] size = "Size16" -> Module("regular", "size_16")
      [] size = "Size18" -> Module("regular", "size_18")
      [] size = "Size20" -> Module("regular", "size_20")
      [] size = "Size22" -> Module("regular", "size_22")
      [] size = "Size24" -> Module("regular", "size_24")
      [] size = "Size32" -> Module("regular", "size_32")
      [] size = "Size64" -> Module("regular", "size_64")

\* FontWeight::Bold => match size: the module whose BITMAP_WIDTH is returned.
get_bitmap_width_match_bold(size) ==
    CASE size = "Size14" -> Module("bold", "size_14")
      [] size = "Size16" -> Module("bold", "size_16")
      [] size = "Size18" -> Module("bold", "size_18")
      [] size = "Size20" -> Module("bold", "size_20")
      [] size = "Size22" -> Module("bold", "size_22")
      [] size = "Size24" -> Module("bold", "size_24")
      [] size = "Size32" -> Module("bold", "size_32")
      [] size = "Size64" -> Module("bold", "size_64")

\* Faulty variant: the Bold arm is a copy of the Regular arm of a smaller size.
get_bitmap_width_match_pasted(style, size) ==
    CASE style = "Light" -> get_bitmap_width_match_light(size)
      [] style = "Regular" -> get_bitmap_width_match_regular(size)
      [] style = "Bold" -> get_bitmap_width_match_regular("Size14")

\* match style: the module whose BITMAP_WIDTH get_bitmap_width returns.
get_bitmap_width_match(style, size) ==
    CASE style = "Light" -> get_bitmap_width_match_light(size)
      [] style = "Regular" -> get_bitmap_width_match_regular(size)
      [] style = "Bold" -> get_bitmap_width_match_bold(size)

\* Faulty variant: a combination falls through to a default of 0.
get_bitmap_width_zero(style, size) ==
    IF size = "Size64"
    THEN 0
    ELSE BITMAP_WIDTH(get_bitmap_width_match(style, size))

\* get_bitmap_width: a constant of the selected module.
get_bitmap_width(style, size) ==
    BITMAP_WIDTH(get_bitmap_width_match(style, size))

\* The glyph tables get_bitmap_width consults: none.
get_bitmap_width_lookups(style, size) == {}

(***************************************************************************)
(* get_bitmap.                                                             *)
(***************************************************************************)
\* FontWeight::Light => match size: the module whose get_char is called.
get_bitmap_match_light(size) ==
    CASE size = "Size14" -> Module("light", "size_14")
      [] size = "Size16" -> Module("light", "size_16")
      [] size = "Size18" -> Module("light", "size_18")
      [] size = "Size20" -> Module("light", "size_20")
      [] size = "Size22" -> Module("light", "size_22")
      [] size = "Size24" -> Module("light", "size_24")
      [] size = "Size32" -> Module("light", "size_32")
      [] size = "Size64" -> Module("light", "size_64")

\* FontWeight::Regular => match size: the module whose get_char is called.
get_bitmap_match_regular(size) ==
    CASE size = "Size14" -> Module("regular", "size_14")
      [] size = "Size16" -> Module("regular", "size_16")
      [] size = "Size18" -> Module("regular", "size_18")
      [] size = "Size20" -> Module("regular", "size_20")
      [] size = "Size22" -> Module("regular", "size_22")
      [] size = "Size24" -> Module("regular", "size_24")
      [] size = "Size32" -> Module("regular", "size_32")
      [] size = "Size64" -> Module("regular", "size_64")

\* FontWeight::Bold => match size: the module whose get_char is called.
get_bitmap_match_bold(size) ==
    CASE size = "Size14" -> Module("bold", "size_14")
      [] size = "Size16" -> Module("bold", "size_16")
      [] size = "Size18" -> Module("bold", "size_18")
      [] size = "Size20" -> Module("bold", "size_20")
      [] size = "Size22" -> Module("bold", "size_22")
      [] size = "Size24" -> Module("bold", "size_24")
      [] size = "Size32" -> Module("bold", "size_32")
      [] size = "Size64" -> Module("bold", "size_64")

\* match style: the module whose get_char get_bitmap calls.
get_bitmap_match(style, size) ==
    CASE style = "Light" -> get_bitmap_match_light(size)
      [] style = "Regular" -> get_bitmap_match_regular(size)
      [] style = "Bold" -> get_bitmap_match_bold(size)

\* The glyph tables get_bitmap consults: the selected one.
get_bitmap_lookups(c, style, size) == {get_bitmap_match(style, size)}

\* Faulty variant: height and width are stored in each other's field.
get_bitmap_swapped(c, style, size) ==
    LET bitmap == get_char(get_bitmap_match(style, size), c)
    IN  IF bitmap = None
        THEN None
        ELSE Some(BitmapChar(bitmap.val, get_bitmap_width(style, size),
                             BitmapHeight_val(size)))

\* Faulty variant: the rows are taken from the table of the next smaller box.
get_bitmap_rows(c, style, size) ==
    LET bitmap == get_char(get_bitmap_match(style,
                               IF size = "Size14" THEN "Size14"
                               ELSE IF size = "Size16" THEN "Size14"
                               ELSE "Size16"), c)
    IN  IF bitmap = None
        THEN None
        ELSE Some(BitmapChar(bitmap.val, BitmapHeight_val(size),
                             get_bitmap_width(style, size)))

\* Faulty variant: a missing glyph is replaced by the glyph of ' '.
get_bitmap_fallback(c, style, size) ==
    LET bitmap == get_char(get_bitmap_match(style, size), c)
        space == get_char(get_bitmap_match(style, size), 32)
    IN  IF bitmap = None
        THEN Some(BitmapChar(space.val, BitmapHeight_val(size),
                             get_bitmap_width(style, size)))
        ELSE Some(BitmapChar(bitmap.val, BitmapHeight_val(size),
                             get_bitmap_width(style, size)))

\* Faulty variant: the char is narrowed to a byte before the lookup (c as u8).
get_bitmap_narrowed(c, style, size) ==
    LET bitmap == get_char(get_bitmap_match(style, size), c % 256)
    IN  IF bitmap = None
        THEN None
        ELSE Some(BitmapChar(bitmap.val, BitmapHeight_val(size),
                             get_bitmap_width(style, size)))

\* Faulty variant: the width is the advance of the glyph, narrower for 'i'.
get_bitmap_proportional(c, style, size) ==
    LET bitmap == get_char(get_bitmap_match(style, size), c)
    IN  IF bitmap = None
        THEN None
        ELSE Some(BitmapChar(bitmap.val, BitmapHeight_val(size),
                             IF c = 105
                             THEN get_bitmap_width(style, size) - 1
                             ELSE get_bitmap_width(style, size)))

\* Faulty variant: the result of the first caller is kept and served again for the
\* same char, whatever the weight and the height asked for.
get_bitmap_cached(c, style, size) ==
    LET bitmap == get_char(get_bitmap_match(style, size), c)
    IN  IF /\ ret[1].op = "get_bitmap"
           /\ ret[1].c = c
           /\ ret[1].result # None
        THEN ret[1].result
        ELSE IF bitmap = None
             THEN None
             ELSE Some(BitmapChar(bitmap.val, BitmapHeight_val(size),
                                  get_bitmap_width(style, size)))

\* get_bitmap: the selected table's get_char(c), mapped into a BitmapChar.
get_bitmap(c, style, size) ==
    LET bitmap == get_char(get_bitmap_match(style, size), c)
    IN  IF bitmap = None
        THEN None
        ELSE Some(BitmapChar(bitmap.val, BitmapHeight_val(size),
                             get_bitmap_width(style, size)))

(***************************************************************************)
(* The callers: each makes one call at a time and keeps its record until   *)
(* it drops it.                                                            *)
(***************************************************************************)
NoCall ==
    [op |-> "none", outcome |-> "none", c |-> 0, style |-> "-", size |-> "-",
     result |-> None, value |-> 0, lookups |-> {}]

\* The callers of S that are not holding the value of a call.
Idle(S) == {t \in S : ret[t] = NoCall}

\* Caller t calls get_bitmap(c, style, size); both variants exist.
GetBitmap(t, c, style, size) ==
    /\ ret[t] = NoCall
    /\ style \in FontWeightVariants
    /\ size \in BitmapHeightVariants
    /\ ret' = [ret EXCEPT ![t] =
                 [op |-> "get_bitmap", outcome |-> "returned", c |-> c,
                  style |-> style, size |-> size,
                  result |-> get_bitmap(c, style, size), value |-> 0,
                  lookups |-> get_bitmap_lookups(c, style, size)]]
    /\ UNCHANGED features

\* Caller t names a variant that the build does not have: the call does
\* not compile, nothing is returned.
GetBitmapNotCompiled(t, c, style, size) ==
    /\ ret[t] = NoCall
    /\ ~(style \in FontWeightVariants /\ size \in BitmapHeightVariants)
    /\ ret' = [ret EXCEPT ![t] =
                 [op |-> "get_bitmap", outcome |-> "rejected", c |-> c,
                  style |-> style, size |-> size,
                  result |-> NoValue, value |-> 0, lookups |-> {}]]
    /\ UNCHANGED features

\* Caller t calls get_bitmap_width(style, size).
GetBitmapWidth(t, style, size) ==
    /\ ret[t] = NoCall
    /\ style \in FontWeightVariants
    /\ size \in BitmapHeightVariants
    /\ ret' = [ret EXCEPT ![t] =
                 [op |-> "get_bitmap_width", outcome |-> "returned", c |-> 0,
                  style |-> style, size |-> size,
                  result |-> None,
                  value |-> get_bitmap_width(style, size),
                  lookups |-> get_bitmap_width_lookups(style, size)]]
    /\ UNCHANGED features

\* Caller t calls size.val().
Val(t, size) ==
    /\ ret[t] = NoCall
    /\ size \in BitmapHeightVariants
    /\ ret' = [ret EXCEPT ![t] =
                 [op |-> "val", outcome |-> "returned", c |-> 0,
                  style |-> "-", size |-> size,
                  result |-> None, value |-> BitmapHeight_val(size),
                  lookups |-> {}]]
    /\ UNCHANGED features

\* Caller t is done with the value of its last call.
Drop(t) ==
    /\ ret[t] # NoCall
    /\ ret' = [ret EXCEPT ![t] = NoCall]
    /\ UNCHANGED features

(***************************************************************************)
(* Sequential specification: one caller, every code point, every           *)
(* combination, under each build of Builds.                                *)
(***************************************************************************)
Init ==
    /\ features \in Builds
    /\ ret = [t \in Callers |-> NoCall]

Next ==
    \/ \E t \in Idle({1}), c \in CodePoints, style \in FontWeight,
          size \in BitmapHeight :
          GetBitmap(t, c, style, size)
    \/ \E t \in Idle({1}), c \in CodePoints, style \in FontWeight,
          size \in BitmapHeight :
          GetBitmapNotCompiled(t, c, style, size)
    \/ \E t \in Idle({1}), style \in FontWeight, size \in BitmapHeight :
          GetBitmapWidth(t, style, size)
    \/ \E t \in Idle({1}), size \in BitmapHeight : Val(t, size)
    \/ Drop(1)

Spec == Init /\ [][Next]_vars

(***************************************************************************)
(* Interleaved specification: NumCallers callers whose calls interleave in *)
(* any order, on sample code points, under each build of SmallBuilds.      *)
(***************************************************************************)
InitConc ==
    /\ features \in SmallBuilds
    /\ ret = [t \in Callers |-> NoCall]

NextConc ==
    \/ \E t \in Idle(Callers), c \in SampleChars, style \in FontWeight,
          size \in BitmapHeight :
          GetBitmap(t, c, style, size)
    \/ \E t \in Idle(Callers), style \in FontWeight, size \in BitmapHeight :
          GetBitmapWidth(t, style, size)
    \/ \E t \in Idle(Callers), size \in BitmapHeight : Val(t, size)
    \/ \E t \in Callers : Drop(t)

SpecConc == InitConc /\ [][NextConc]_vars

(***************************************************************************)
(* Definitions the properties are stated with.                             *)
(***************************************************************************)
\* The module a (weight, height) combination stands for:
\* crate::<weight in lower case>::size_<pixels>.
ExpectedModule(style, size) ==
    Module(CASE style = "Light" -> "light"
             [] style = "Regular" -> "regular"
             [] style = "Bold" -> "bold",
           CASE size = "Size14" -> "size_14"
             [] size = "Size16" -> "size_16"
             [] size = "Size18" -> "size_18"
             [] size = "Size20" -> "size_20"
             [] size = "Size22" -> "size_22"
             [] size = "Size24" -> "size_24"
             [] size = "Size32" -> "size_32"
             [] size = "Size64" -> "size_64")

\* 0x00 - 0x17F without the control characters.
InSupportedRange(c) ==
    /\ c \in 0 .. 383
    /\ c \notin 0 .. 31
    /\ c \notin 127 .. 159

\* The combination was included at build time.
Included(style, size) ==
    /\ style \in FontWeight
    /\ size \in BitmapHeight
    /\ ExpectedModule(style, size).weight \in features
    /\ ExpectedModule(style, size).size \in features

\* Caller t holds what a call of get_bitmap returned.
ReturnedBitmap(t) ==
    ret[t].op = "get_bitmap" /\ ret[t].outcome = "returned"

\* Caller t holds a BitmapChar.
HoldsChar(t) == ReturnedBitmap(t) /\ ret[t].result # None

\* Caller t holds what a call of get_bitmap_width returned.
ReturnedWidth(t) ==
    ret[t].op = "get_bitmap_width" /\ ret[t].outcome = "returned"

\* Two callers passed the same arguments to the same function.
SameCall(t, u) ==
    /\ ret[t].op = ret[u].op
    /\ ret[t].c = ret[u].c
    /\ ret[t].style = ret[u].style
    /\ ret[t].size = ret[u].size

(***************************************************************************)
(* C1. Whenever get_bitmap(c, w, h) returns Some(bc): bc.height() is       *)
(* h.val(), bc.width() is get_bitmap_width(w, h), and bc.bitmap() is the   *)
(* grid the table lookup returned.                                         *)
(***************************************************************************)
C1_WrapsLookup ==
    \A t \in Callers :
        HoldsChar(t) =>
            LET bc == ret[t].result.val
                r == ret[t]
            IN  /\ BitmapChar_height(bc) = BitmapHeight_val(r.size)
                /\ BitmapChar_width(bc) = get_bitmap_width(r.style, r.size)
                /\ Some(BitmapChar_bitmap(bc))
                     = get_char(get_bitmap_match(r.style, r.size), r.c)

C1_Witness ==
    /\ HoldsChar(1)
    /\ ret[1].c = 65
    /\ ret[1].style = "Regular"
    /\ ret[1].size = "Size16"
    /\ BitmapChar_height(ret[1].result.val) = 16
    /\ BitmapChar_width(ret[1].result.val) # 16

(***************************************************************************)
(* C2. For every code point of the supported range (0x00-0x17F without the *)
(* control characters) and every compiled-in combination, get_bitmap       *)
(* returns a BitmapChar whose grid has height.val() rows of                *)
(* get_bitmap_width(weight, height) bytes, each in 0 .. 255.               *)
(***************************************************************************)
C2_SupportedGrid ==
    \A t \in Callers :
        (ReturnedBitmap(t) /\ InSupportedRange(ret[t].c)) =>
            /\ ret[t].result # None
            /\ LET grid == Grid(BitmapChar_bitmap(ret[t].result.val))
                   w == get_bitmap_width(ret[t].style, ret[t].size)
               IN  /\ Len(grid) = BitmapHeight_val(ret[t].size)
                   /\ \A row \in 1 .. Len(grid) :
                        /\ Len(grid[row]) = w
                        /\ \A col \in 1 .. w : grid[row][col] \in 0 .. 255

C2_Witness ==
    /\ HoldsChar(1)
    /\ ret[1].c = 383
    /\ ret[1].style = "Bold"
    /\ ret[1].size = "Size64"
    /\ Len(Grid(BitmapChar_bitmap(ret[1].result.val))) = 64

(***************************************************************************)
(* C3. For every code point outside the supported set (above 0x17F, such   *)
(* as U+1F600, or a control character, such as U+0001), get_bitmap returns *)
(* None for every combination.                                             *)
(***************************************************************************)
C3_UnsupportedIsNone ==
    \A t \in Callers :
        (ReturnedBitmap(t) /\ ~InSupportedRange(ret[t].c)) =>
            ret[t].result = None

C3_Witness ==
    /\ ReturnedBitmap(1)
    /\ ret[1].c = 128512
    /\ ret[1].style = "Light"
    /\ ret[1].size = "Size14"
    /\ ret[1].result = None

(***************************************************************************)
(* C4. The only failure of get_bitmap is None: a call that compiles always *)
(* returns, it returns None exactly when the table of its combination has  *)
(* no entry for c, and a BitmapChar it returns holds the glyph of c        *)
(* itself, never that of another character.                                *)
(***************************************************************************)
C4_NoneIffNoEntry ==
    \A t \in Callers :
        ret[t].op = "get_bitmap" =>
            LET r == ret[t]
                entry == get_char(ExpectedModule(r.style, r.size), r.c)
            IN  /\ Included(r.style, r.size) => r.outcome = "returned"
                /\ r.outcome = "returned" =>
                     /\ r.result = None <=> entry = None
                     /\ r.result # None =>
                          /\ r.result.tag = "Some"
                          /\ BitmapChar_bitmap(r.result.val).char = r.c
                          /\ Some(BitmapChar_bitmap(r.result.val)) = entry

C4_Witness ==
    /\ ReturnedBitmap(1)
    /\ ret[1].c = 1
    /\ ret[1].result = None
    /\ get_char(ExpectedModule(ret[1].style, ret[1].size), 32) # None

(***************************************************************************)
(* C5. Mono-spacing: for a fixed combination, the BitmapChars of any two   *)
(* supported code points have the same width(), and every row of both      *)
(* grids has that many columns.                                            *)
(***************************************************************************)
C5_MonoSpaced ==
    \A t, u \in Callers :
        (/\ t < u
         /\ HoldsChar(t)
         /\ HoldsChar(u)
         /\ ret[t].style = ret[u].style
         /\ ret[t].size = ret[u].size) =>
            LET a == ret[t].result.val
                b == ret[u].result.val
                ga == Grid(BitmapChar_bitmap(a))
                gb == Grid(BitmapChar_bitmap(b))
            IN  /\ BitmapChar_width(a) = BitmapChar_width(b)
                /\ \A row \in DOMAIN ga :
                     DOMAIN ga[row] = 1 .. BitmapChar_width(a)
                /\ \A row \in DOMAIN gb :
                     DOMAIN gb[row] = 1 .. BitmapChar_width(a)

C5_Witness ==
    /\ HoldsChar(1)
    /\ HoldsChar(2)
    /\ ret[1].c = 65
    /\ ret[2].c = 105
    /\ ret[1].style = ret[2].style
    /\ ret[1].size = ret[2].size

(***************************************************************************)
(* C6. get_bitmap_width is total and infallible: every compiled-in         *)
(* combination can be passed, the call returns a number greater than 0     *)
(* without any glyph lookup, and two calls with the same arguments return  *)
(* the same number.                                                        *)
(***************************************************************************)
C6_WidthTotal ==
    /\ \A t \in Idle(Callers), style \in FontWeightVariants,
          size \in BitmapHeightVariants :
          ENABLED GetBitmapWidth(t, style, size)
    /\ \A t \in Callers :
          ret[t].op = "get_bitmap_width" =>
             /\ ret[t].outcome = "returned"
             /\ ret[t].value \in Nat
             /\ ret[t].value > 0
             /\ ret[t].lookups = {}
    /\ \A t, u \in Callers :
          (ReturnedWidth(t) /\ ReturnedWidth(u) /\ SameCall(t, u)) =>
             ret[t].value = ret[u].value

C6_Witness ==
    /\ ReturnedWidth(1)
    /\ ReturnedWidth(2)
    /\ SameCall(1, 2)
    /\ ret[1].size = "Size64"
    /\ ret[1].value > 0

C9_ValIsPixelHeight ==
    \A t \in Callers :
        ret[t].op = "val" =>
            /\ ret[t].size = "Size14" => ret[t].value = 14
            /\ ret[t].size = "Size16" => ret[t].value = 16
            /\ ret[t].size = "Size18" => ret[t].value = 18
            /\ ret[t].size = "Size20" => ret[t].value = 20
            /\ ret[t].size = "Size22" => ret[t].value = 22
            /\ ret[t].size = "Size24" => ret[t].value = 24
            /\ ret[t].size = "Size32" => ret[t].value = 32
            /\ ret[t].size = "Size64" => ret[t].value = 64

C9_Witness ==
    /\ ret[1].op = "val"
    /\ ret[1].size = "Size32"
    /\ ret[1].value = 32
    /\ "size_14" \notin features

(***************************************************************************)
(* C10. Dispatch is not cross-wired: for each of the 24 combinations       *)
(* get_bitmap consults the glyph table of exactly that weight module and   *)
(* size module, get_bitmap_width returns the BITMAP_WIDTH of the same      *)
(* module, and the width stored in a BitmapChar belongs to the table its   *)
(* grid came from.                                                         *)
(***************************************************************************)
C10_DispatchConsistent ==
    \A t \in Callers :
        /\ ReturnedBitmap(t) =>
             /\ ret[t].lookups = {ExpectedModule(ret[t].style, ret[t].size)}
             /\ get_bitmap_width_match(ret[t].style, ret[t].size)
                  = ExpectedModule(ret[t].style, ret[t].size)
             /\ ret[t].result # None =>
                  LET bc == ret[t].result.val
                  IN  /\ BitmapChar_bitmap(bc).module
                           = ExpectedModule(ret[t].style, ret[t].size)
                      /\ BitmapChar_width(bc)
                           = BITMAP_WIDTH(BitmapChar_bitmap(bc).module)
        /\ ReturnedWidth(t) =>
             /\ get_bitmap_width_match(ret[t].style, ret[t].size)
                  = ExpectedModule(ret[t].style, ret[t].size)
             /\ ret[t].value
                  = BITMAP_WIDTH(ExpectedModule(ret[t].style, ret[t].size))

C10_Witness ==
    /\ HoldsChar(1)
    /\ ret[1].style = "Bold"
    /\ ret[1].size = "Size64"
    /\ features = AllFeatures
    /\ BitmapChar_bitmap(ret[1].result.val).module = Module("bold", "size_64")

====
